---- MODULE Spec2Model ----
(***************************************************************************)
(* Radio-test backend: the bulk ingest of location samples                 *)
(* (POST /locations/bulk -> crud.create_location_samples_bulk) over the    *)
(* location_samples table, as a state machine.                             *)
(*                                                                         *)
(* Each element of Procs is one request in flight on its own worker, with  *)
(* its own SQLAlchemy session (database.get_db).  The table is the only    *)
(* shared state.  A session is created with autoflush=False, so rows added *)
(* with db.add() stay pending in the session until db.commit() flushes     *)
(* them; the existence query of the loop therefore sees committed rows     *)
(* only.                                                                   *)
(*                                                                         *)
(* Text fields that the code parses (sample_date, sample_time) are         *)
(* sequences of one-character strings, so that the regular expressions of  *)
(* schemas.py are computed character by character.                         *)
(***************************************************************************)
EXTENDS Integers, Sequences, FiniteSets, TLC

VARIABLES
    store,           \* the rows of public.location_samples, in insertion order
    pc,              \* pc[p]: where request p is: idle, loop, commit, responded
    req,             \* req[p]: the BulkUploadRequest body being served
    idx,             \* idx[p]: position of the for loop over request.samples
    pending,         \* pending[p]: rows added to the session, not yet flushed
    successful_ids,  \* successful_ids[p] of create_location_samples_bulk
    failed_samples,  \* failed_samples[p] of create_location_samples_bulk
    exc,             \* exc[p]: the exception that ended the call ("none" if none)
    resp,            \* resp[p]: the HTTP response delivered to the caller
    session_open,    \* session_open[p]: the session of get_db is not yet closed
    prior,           \* history: the client_ids of req[p] stored when p started
    hreq,            \* the request a read-only handler (report, trajectories) serves
    hresp,           \* the outcome of that handler
    hsession_open,   \* the session get_db gave that handler is not yet closed
    fcall,           \* a call of a helper function of reports.py: name and arguments
    fret             \* what that call returned

\* the variables of the bulk ingest
ingestVars == <<pc, req, idx, pending, successful_ids, failed_samples,
                exc, resp, session_open, prior>>

\* the variables of the read-only handlers and of the helper functions
readVars == <<hreq, hresp, hsession_open, fcall, fret>>

vars == <<store, pc, req, idx, pending, successful_ids, failed_samples,
          exc, resp, session_open, prior, hreq, hresp, hsession_open,
          fcall, fret>>

----------------------------------------------------------------------------
(* Bounds of the model *)

\* longest batch of the small requests
MaxBatch == 2

\* how far below and above the size limit the large batches go
SizeSlack == 1

(* Program constants *)

\* Field(..., max_items=1000) of BulkUploadRequest.samples
MAX_ITEMS == 1000

\* if len(request.samples) > 1000 in bulk_upload_locations
HANDLER_LIMIT == 1000

Procs == {"p1", "p2"}

Devices == {"d1", "d2"}

----------------------------------------------------------------------------
(* Texts *)

Digits == {"0", "1", "2", "3", "4", "5", "6", "7", "8", "9"}

\* what Python's $ leaves of v: it matches at the end and before one final newline
BeforeDollar(v) ==
    IF Len(v) > 0 /\ v[Len(v)] = "\n" THEN {Len(v), Len(v) - 1} ELSE {Len(v)}

\* re.match(r'^\d{4}-\d{2}-\d{2}$', v)
MatchesDateFormat(v) ==
    /\ 10 \in BeforeDollar(v)
    /\ \A i \in {1, 2, 3, 4, 6, 7, 9, 10} : v[i] \in Digits
    /\ v[5] = "-"
    /\ v[8] = "-"

\* re.match(r'^\d{2}:\d{2}:\d{2}$', v)
MatchesTimeFormat(v) ==
    /\ 8 \in BeforeDollar(v)
    /\ \A i \in {1, 2, 4, 5, 7, 8} : v[i] \in Digits
    /\ v[3] = ":"
    /\ v[6] = ":"

----------------------------------------------------------------------------
(* Request validation (pydantic, before the handler body runs) *)

\* a latitude constraint without its upper bound
LatInRange_NoUpper(lat) == lat >= -90

\* lat: ge=-90, le=90
LatInRange(lat) == lat >= -90 /\ lat <= 90

\* lon: ge=-180, le=180
LonInRange(lon) == lon >= -180 /\ lon <= 180

\* acc: ge=0
AccInRange(acc) == acc >= 0

\* LocationSampleBase: the field constraints and the two validators
ValidSample(s) ==
    /\ LatInRange(s.lat)
    /\ LonInRange(s.lon)
    /\ AccInRange(s.acc)
    /\ MatchesDateFormat(s.sample_date)
    /\ MatchesTimeFormat(s.sample_time)

\* a size constraint that excludes the limit itself
\* a body model without max_items
ValidRequest_NoSizeLimit(r) ==
    \A i \in 1..Len(r.samples) : ValidSample(r.samples[i])

ValidRequest_Exclusive(r) ==
    /\ Len(r.samples) < MAX_ITEMS
    /\ \A i \in 1..Len(r.samples) : ValidSample(r.samples[i])

\* BulkUploadRequest: every sample validates and the list has at most max_items
ValidRequest(r) ==
    /\ Len(r.samples) <= MAX_ITEMS
    /\ \A i \in 1..Len(r.samples) : ValidSample(r.samples[i])

----------------------------------------------------------------------------
(* The table and the session *)

\* models.LocationSample(...) built from a sample and the request's deviceId
NewRow(s, device_id) ==
    [client_id   |-> s.id,
     lat         |-> s.lat,
     lon         |-> s.lon,
     acc         |-> s.acc,
     sample_date |-> s.sample_date,
     sample_time |-> s.sample_time,
     station     |-> s.station,
     comm_state  |-> s.comm_state,
     device_id   |-> device_id]

\* db.query(LocationSample).filter(client_id == id).first() is not None
Exists(st, id) == \E i \in 1..Len(st) : st[i].client_id = id

\* a client_id column without the unique constraint
UniqueViolation_Unchecked(rows, id) == FALSE

\* the unique constraint of the client_id column, as an INSERT meets it
UniqueViolation(rows, id) == Exists(rows, id)

\* INSERT ... ON CONFLICT DO UPDATE, which the code does not use
RECURSIVE UpsertFrom(_, _, _)
UpsertFrom(st, pend, k) ==
    IF k > Len(pend) THEN [ok |-> TRUE, rows |-> st]
    ELSE IF Exists(st, pend[k].client_id)
         THEN UpsertFrom(
                  [i \in 1..Len(st) |->
                      IF st[i].client_id = pend[k].client_id THEN pend[k] ELSE st[i]],
                  pend, k + 1)
         ELSE UpsertFrom(Append(st, pend[k]), pend, k + 1)

Flush_Upsert(st, pend) == UpsertFrom(st, pend, 1)

\* the INSERT of pend[k], after those of pend[1..k-1], violates the constraint
Conflicts(st, pend, k) ==
    UniqueViolation(st \o SubSeq(pend, 1, k - 1), pend[k].client_id)

\* the position of the first INSERT that violates the constraint, 0 if none does
FirstConflict(st, pend) ==
    LET K == {k \in 1..Len(pend) : Conflicts(st, pend, k)}
    IN  IF K = {} THEN 0 ELSE CHOOSE k \in K : \A j \in K : k <= j

\* the flush of db.commit(): one INSERT per pending row, in the order of
\* db.add(); the first violation of the unique constraint raises IntegrityError
\* and leaves the rows inserted before it written in the transaction
Flush(st, pend) ==
    LET k == FirstConflict(st, pend)
    IN  IF k = 0 THEN [ok |-> TRUE, rows |-> st \o pend]
        ELSE [ok |-> FALSE, rows |-> st \o SubSeq(pend, 1, k - 1)]

\* a rollback that keeps what the failed transaction had written
Rollback_KeepsWritten(before, written) == written

\* db.rollback(): the table as it was before the transaction
Rollback(before, written) == before

\* a commit that reports success and stores nothing
DbCommit_NotDurable(st, pend) == [ok |-> TRUE, store |-> st]

\* db.commit() or, when it raises, the db.rollback() of the except branch
DbCommit(st, pend) ==
    LET f == Flush(st, pend)
    IN  IF f.ok THEN [ok |-> TRUE, store |-> f.rows]
        ELSE [ok |-> FALSE, store |-> Rollback(st, f.rows)]

\* a loop body without the existence query: every sample is added
PendingAfter_NoLookup(st, pend, s, device_id) == Append(pend, NewRow(s, device_id))

\* the session's pending rows after the loop body has run for sample s: nothing
\* is added when a committed row has the client_id, otherwise db.add(db_sample)
PendingAfter(st, pend, s, device_id) ==
    IF Exists(st, s.id) THEN pend ELSE Append(pend, NewRow(s, device_id))

----------------------------------------------------------------------------
(* Responses *)

NoResponse == [status |-> 0]

\* FastAPI's answer to a body that fails validation
Response422 == [status |-> 422, detail |-> "validation error"]

\* the errors the 422 lists: the kind of each and, for the list that is too
\* long, the limit; for a sample that fails, its position
ValidationErrors(r) ==
    (IF Len(r.samples) > MAX_ITEMS THEN {<<"max_items", MAX_ITEMS>>} ELSE {})
    \cup {<<"value_error", i>> : i \in {k \in 1..Len(r.samples) : ~ValidSample(r.samples[k])}}

Response422For(r) == Response422 @@ [errors |-> ValidationErrors(r)]

\* http_exception_handler on the HTTPException of the handler's except branch
Response500 ==
    [status |-> 500,
     body   |-> [status |-> "error", message |-> "Internal server error occurred"]]

\* the response dictionary of bulk_upload_locations
Response201(ok_ids, failed) ==
    [status |-> 201,
     body   |-> [status     |-> "success",
                 message    |-> <<Len(ok_ids), Len(failed)>>,
                 synced_ids |-> ok_ids]]

----------------------------------------------------------------------------
(* Inputs *)

DateGood == <<"2", "0", "2", "4", "-", "0", "1", "-", "1", "5">>
DateBad  == <<"1", "5", "/", "0", "1", "/", "2", "0", "2", "4">>
TimeGood == <<"1", "0", ":", "0", "0", ":", "0", "0">>
TimeBad  == <<"1", "0", ":", "0", "0">>

Sample(id, lat, lon, acc, d, t) ==
    [id |-> id, lat |-> lat, lon |-> lon, acc |-> acc,
     sample_date |-> d, sample_time |-> t,
     station |-> "alpha", comm_state |-> "loud and clear"]

\* two samples with the same client_id and different fields, and a third one
SampleA == Sample(1, 90, 180, 0, DateGood, TimeGood)
SampleB == Sample(1, -90, -180, 5, DateGood, TimeGood)
SampleC == Sample(2, 45, 90, 3, DateGood, TimeGood)

\* one malformed sample per constraint
SampleBadLat  == Sample(3, 95, 0, 0, DateGood, TimeGood)
SampleBadLon  == Sample(3, 0, 181, 0, DateGood, TimeGood)
SampleBadAcc  == Sample(3, 0, 0, -1, DateGood, TimeGood)
SampleBadDate == Sample(3, 0, 0, 0, DateBad, TimeGood)
SampleBadTime == Sample(3, 0, 0, 0, DateGood, TimeBad)

GoodSamples == {SampleA, SampleB, SampleC}

BadSamples ==
    {SampleBadLat, SampleBadLon, SampleBadAcc, SampleBadDate, SampleBadTime}

SeqsUpTo(S, n) == UNION {[1..k -> S] : k \in 0..n}

RequestsOver(S, n) ==
    {[deviceId |-> d, samples |-> b] : d \in Devices, b \in SeqsUpTo(S, n)}

\* each concurrent caller is one device with its own samples
DeviceOf(p) == IF p = "p1" THEN "d1" ELSE "d2"

SamplesOf(p) == IF p = "p1" THEN {SampleA, SampleC} ELSE {SampleB, SampleC}

\* the requests of concurrent callers
Requests(p) ==
    {[deviceId |-> DeviceOf(p), samples |-> b] :
        b \in SeqsUpTo(SamplesOf(p) \cup {SampleBadLat}, MaxBatch)}

\* the requests of a single caller: every kind of malformed sample
RichRequests == RequestsOver(GoodSamples \cup BadSamples, MaxBatch)

\* n samples with the client_ids 1..n
LargeBatch(n) == [i \in 1..n |-> Sample(i, 45, 90, 3, DateGood, TimeGood)]

\* the requests around the size limit
LargeRequests ==
    {[deviceId |-> "d1", samples |-> LargeBatch(n)] :
        n \in (MAX_ITEMS - SizeSlack)..(MAX_ITEMS + SizeSlack)}

Ids(samples) == {samples[i].id : i \in 1..Len(samples)}

----------------------------------------------------------------------------
(* Initial state: an empty table, no request in flight *)

\* no bulk ingest request in flight
IngestIdle ==
    /\ pc = [p \in Procs |-> "idle"]
    /\ req = [p \in Procs |-> [deviceId |-> "d1", samples |-> <<>>]]
    /\ idx = [p \in Procs |-> 0]
    /\ pending = [p \in Procs |-> <<>>]
    /\ successful_ids = [p \in Procs |-> <<>>]
    /\ failed_samples = [p \in Procs |-> <<>>]
    /\ exc = [p \in Procs |-> "none"]
    /\ resp = [p \in Procs |-> NoResponse]
    /\ session_open = [p \in Procs |-> FALSE]
    /\ prior = [p \in Procs |-> {}]

NoRequest == [endpoint |-> "none"]

NoCall == [fn |-> "none"]

\* no read-only handler running, no helper function called
ReadIdle ==
    /\ hreq = NoRequest
    /\ hresp = NoResponse
    /\ hsession_open = FALSE
    /\ fcall = NoCall
    /\ fret = NoCall

Init ==
    /\ store = <<>>
    /\ IngestIdle
    /\ ReadIdle

----------------------------------------------------------------------------
(* Actions *)

\* A request arrives: get_db opens the session, the body is validated, and
\* the handler runs up to the call of create_location_samples_bulk.
Receive(p, r) ==
    /\ pc[p] = "idle"
    /\ req' = [req EXCEPT ![p] = r]
    /\ session_open' = [session_open EXCEPT ![p] = TRUE]
    /\ prior' = [prior EXCEPT ![p] = {id \in Ids(r.samples) : Exists(store, id)}]
    /\ IF ~ValidRequest(r)
       THEN /\ pc' = [pc EXCEPT ![p] = "responded"]
            /\ exc' = [exc EXCEPT ![p] = "RequestValidationError"]
            /\ resp' = [resp EXCEPT ![p] = Response422For(r)]
            /\ UNCHANGED idx
       ELSE IF Len(r.samples) > HANDLER_LIMIT
       THEN /\ pc' = [pc EXCEPT ![p] = "responded"]
            /\ exc' = [exc EXCEPT ![p] = "HTTPException"]
            /\ resp' = [resp EXCEPT ![p] = Response500]
            /\ UNCHANGED idx
       ELSE /\ pc' = [pc EXCEPT ![p] = IF Len(r.samples) = 0 THEN "commit" ELSE "loop"]
            /\ idx' = [idx EXCEPT ![p] = 1]
            /\ UNCHANGED <<exc, resp>>
    /\ UNCHANGED <<store, pending, successful_ids, failed_samples>>
    /\ UNCHANGED readVars

\* pc after the loop body has run for position idx[p]
AfterItem(p) == IF idx[p] = Len(req[p].samples) THEN "commit" ELSE "loop"

\* One iteration of the for loop: the existence query, then either the
\* idempotent skip or db.add() of a new row.
Lookup(p) ==
    /\ pc[p] = "loop"
    /\ LET s == req[p].samples[idx[p]]
       IN  /\ pending' = [pending EXCEPT ![p] =
                  PendingAfter(store, @, s, req[p].deviceId)]
           /\ successful_ids' = [successful_ids EXCEPT ![p] = Append(@, s.id)]
    /\ idx' = [idx EXCEPT ![p] = @ + 1]
    /\ pc' = [pc EXCEPT ![p] = AfterItem(p)]
    /\ UNCHANGED <<store, req, failed_samples, exc, resp, session_open, prior>>
    /\ UNCHANGED readVars

\* One iteration of the for loop in which the query raises: the per-item
\* except branch records the sample and the loop goes on.
QueryFail(p) ==
    /\ pc[p] = "loop"
    /\ LET s == req[p].samples[idx[p]]
       IN  failed_samples' = [failed_samples EXCEPT ![p] =
               Append(@, [id |-> s.id, error |-> "query failed"])]
    /\ idx' = [idx EXCEPT ![p] = @ + 1]
    /\ pc' = [pc EXCEPT ![p] = AfterItem(p)]
    /\ UNCHANGED <<store, req, pending, successful_ids, exc, resp,
                   session_open, prior>>
    /\ UNCHANGED readVars

\* db.commit() and the rest of the call: on success the response of the
\* handler; on IntegrityError the rollback, the re-raise and the handler's
\* except branch.
Commit(p) ==
    /\ pc[p] = "commit"
    /\ LET c == DbCommit(store, pending[p])
       IN  /\ store' = c.store
           /\ IF c.ok
              THEN /\ resp' = [resp EXCEPT ![p] =
                          Response201(successful_ids[p], failed_samples[p])]
                   /\ UNCHANGED exc
              ELSE /\ resp' = [resp EXCEPT ![p] = Response500]
                   /\ exc' = [exc EXCEPT ![p] = "IntegrityError"]
    /\ pending' = [pending EXCEPT ![p] = <<>>]
    /\ pc' = [pc EXCEPT ![p] = "responded"]
    /\ UNCHANGED <<req, idx, successful_ids, failed_samples, session_open, prior>>
    /\ UNCHANGED readVars

\* db.commit() fails for a reason of the infrastructure (connection lost,
\* server error): rollback, re-raise, the handler's except branch.
CommitFail(p) ==
    /\ pc[p] = "commit"
    /\ store' = Rollback(store, Flush(store, pending[p]).rows)
    /\ resp' = [resp EXCEPT ![p] = Response500]
    /\ exc' = [exc EXCEPT ![p] = "OperationalError"]
    /\ pending' = [pending EXCEPT ![p] = <<>>]
    /\ pc' = [pc EXCEPT ![p] = "responded"]
    /\ UNCHANGED <<req, idx, successful_ids, failed_samples, session_open, prior>>
    /\ UNCHANGED readVars

\* the session when get_db is left after a response of the given status
SessionAfterExit_OnlyOnSuccess(status) == status >= 400

\* finally: db.close()
SessionAfterExit(status) == FALSE

\* The response is sent and get_db's finally closes the session.
Finish(p) ==
    /\ pc[p] = "responded"
    /\ pc' = [pc EXCEPT ![p] = "idle"]
    /\ req' = [req EXCEPT ![p] = [deviceId |-> "d1", samples |-> <<>>]]
    /\ idx' = [idx EXCEPT ![p] = 0]
    /\ successful_ids' = [successful_ids EXCEPT ![p] = <<>>]
    /\ failed_samples' = [failed_samples EXCEPT ![p] = <<>>]
    /\ exc' = [exc EXCEPT ![p] = "none"]
    /\ resp' = [resp EXCEPT ![p] = NoResponse]
    /\ session_open' = [session_open EXCEPT ![p] = SessionAfterExit(resp[p].status)]
    /\ prior' = [prior EXCEPT ![p] = {}]
    /\ UNCHANGED <<store, pending>>
    /\ UNCHANGED readVars

----------------------------------------------------------------------------
(* Specifications *)

ReceiveSmall(p) == \E r \in Requests(p) : Receive(p, r)

ReceiveRich(p) == \E r \in RichRequests : Receive(p, r)

ReceiveLarge(p) == \E r \in LargeRequests : Receive(p, r)

\* concurrent callers whose queries succeed; a commit may fail
Next ==
    \E p \in Procs :
        \/ ReceiveSmall(p)
        \/ Lookup(p)
        \/ Commit(p)
        \/ CommitFail(p)
        \/ Finish(p)

Spec == Init /\ [][Next]_vars

\* a single caller, one request after the other; queries and commits may fail
NextSeq ==
    \/ ReceiveRich("p1")
    \/ Lookup("p1")
    \/ QueryFail("p1")
    \/ Commit("p1")
    \/ CommitFail("p1")
    \/ Finish("p1")

SpecSeq == Init /\ [][NextSeq]_vars

\* a single caller whose batches are around the size limit; queries succeed
NextSize ==
    \/ ReceiveLarge("p1")
    \/ Lookup("p1")
    \/ Commit("p1")
    \/ CommitFail("p1")
    \/ Finish("p1")

SpecSize == Init /\ [][NextSize]_vars

----------------------------------------------------------------------------
(* The helper functions of reports.py *)

Abs(n) == IF n < 0 THEN -n ELSE n

Min(S) == CHOOSE x \in S : \A y \in S : x <= y

Whitespace == {" ", "\n", "\t"}

\* str.strip(): the text without its leading and trailing whitespace
Strip(v) ==
    LET K == {i \in 1..Len(v) : v[i] \notin Whitespace}
    IN  IF K = {} THEN <<>>
        ELSE SubSeq(v, Min(K), CHOOSE x \in K : \A y \in K : y <= x)

\* str.split('.')[0]: the text before its first '.'
BeforeDot(v) ==
    LET D == {i \in 1..Len(v) : v[i] = "."}
    IN  IF D = {} THEN v ELSE SubSeq(v, 1, Min(D) - 1)

\* str.split(sep): the fields between the separators, empty ones included
SplitOn(v, sep) ==
    LET C == {i \in 1..Len(v) : v[i] = sep}
        n == Cardinality(C) + 1
        Pos(k) == CHOOSE i \in C : Cardinality({j \in C : j < i}) = k - 1
        First(k) == IF k = 1 THEN 1 ELSE Pos(k - 1) + 1
        Last(k) == IF k = n THEN Len(v) ELSE Pos(k) - 1
    IN  [k \in 1..n |-> SubSeq(v, First(k), Last(k))]

\* str.split(':')
SplitColon(v) == SplitOn(v, ":")

DigitValue(c) == CHOOSE n \in 0..9 : <<"0", "1", "2", "3", "4", "5", "6", "7", "8", "9">>[n + 1] = c

RECURSIVE DigitsValue(_)
DigitsValue(ds) ==
    IF ds = <<>> THEN 0
    ELSE 10 * DigitsValue(SubSeq(ds, 1, Len(ds) - 1)) + DigitValue(ds[Len(ds)])

\* int(text), for texts over digits, signs, whitespace, letters and punctuation:
\* whitespace around is dropped, one sign may lead, digits must follow
IntParse(f) ==
    LET s == Strip(f)
        signed == Len(s) > 0 /\ s[1] \in {"-", "+"}
        ds == IF signed THEN SubSeq(s, 2, Len(s)) ELSE s
    IN  IF Len(ds) > 0 /\ \A i \in 1..Len(ds) : ds[i] \in Digits
        THEN [ok |-> TRUE,
              v  |-> IF signed /\ s[1] = "-" THEN -DigitsValue(ds) ELSE DigitsValue(ds)]
        ELSE [ok |-> FALSE, v |-> 0]

\* h, m, s = map(int, time.split(':')) and h * 3600 + m * 60 + s; not ok when
\* the unpacking or an int() raises
TotalSeconds(t) ==
    LET f == SplitColon(BeforeDot(t))
    IN  IF Len(f) = 3 /\ \A k \in 1..3 : IntParse(f[k]).ok
        THEN [ok |-> TRUE,
              v  |-> IntParse(f[1]).v * 3600 + IntParse(f[2]).v * 60 + IntParse(f[3]).v]
        ELSE [ok |-> FALSE, v |-> 0]

\* a time difference: a number of seconds, or float('inf')
Seconds(n) == [raised |-> FALSE, finite |-> TRUE, v |-> n]

Infinity == [raised |-> FALSE, finite |-> FALSE, v |-> 0]

\* d <= n in Python, where d may be float('inf')
Leq(d, n) == d.finite /\ d.v <= n

\* an except branch that returns 0
OnParseError_Zero == Seconds(0)

\* the except branch of time_difference: return float('inf')
OnParseError == Infinity

\* a difference that wraps around midnight
DifferenceOf_DayWrap(a, b) == Min({Abs(a - b), 86400 - Abs(a - b)})

\* abs(total_seconds1 - total_seconds2)
DifferenceOf(a, b) == Abs(a - b)

\* time_difference(time1, time2)
TimeDifference(t1, t2) ==
    LET a == TotalSeconds(t1)
        b == TotalSeconds(t2)
    IN  IF a.ok /\ b.ok THEN Seconds(DifferenceOf(a.v, b.v)) ELSE OnParseError

UpperCase == <<"A", "B", "C", "D", "E", "F", "G", "H", "I", "J", "K", "L", "M",
               "N", "O", "P", "Q", "R", "S", "T", "U", "V", "W", "X", "Y", "Z">>

LowerCase == <<"a", "b", "c", "d", "e", "f", "g", "h", "i", "j", "k", "l", "m",
               "n", "o", "p", "q", "r", "s", "t", "u", "v", "w", "x", "y", "z">>

\* str.lower()
Lower(v) ==
    [i \in 1..Len(v) |->
        IF \E k \in 1..26 : UpperCase[k] = v[i]
        THEN LowerCase[CHOOSE k \in 1..26 : UpperCase[k] = v[i]]
        ELSE v[i]]

\* pat in text
Contains(text, pat) ==
    \E i \in 0..(Len(text) - Len(pat)) : SubSeq(text, i + 1, i + Len(pat)) = pat

LoudAndClear == <<"l", "o", "u", "d", " ", "a", "n", "d", " ", "c", "l", "e", "a", "r">>

ReadableNoisy == <<"r", "e", "a", "d", "a", "b", "l", "e", " ", "n", "o", "i", "s", "y">>

Noisy == <<"n", "o", "i", "s", "y">>

\* a classification that looks for 'noisy' before 'readable noisy'
ScoreOf_NoisyFirst(c) ==
    IF Contains(c, LoudAndClear) THEN 3
    ELSE IF Contains(c, Noisy) THEN 1
    ELSE IF Contains(c, ReadableNoisy) THEN 2
    ELSE 0

\* the if / elif chain of get_comm_state_value
ScoreOf(c) ==
    IF Contains(c, LoudAndClear) THEN 3
    ELSE IF Contains(c, ReadableNoisy) THEN 2
    ELSE IF Contains(c, Noisy) THEN 1
    ELSE 0

\* get_comm_state_value(comm_state)
GetCommStateValue(comm_state) == ScoreOf(Lower(Strip(comm_state)))

----------------------------------------------------------------------------
(* Inputs of the helper functions *)

\* '00:00:01'
T_000001 ==
    <<"0", "0", ":", "0", "0", ":", "0", "1">>

\* '10:00:00'
T_100000 ==
    <<"1", "0", ":", "0", "0", ":", "0", "0">>

\* '10:01:00'
T_100100 ==
    <<"1", "0", ":", "0", "1", ":", "0", "0">>

\* '10:01:30'
T_100130 ==
    <<"1", "0", ":", "0", "1", ":", "3", "0">>

\* '10:02:00'
T_100200 ==
    <<"1", "0", ":", "0", "2", ":", "0", "0">>

\* '10:02:01'
T_100201 ==
    <<"1", "0", ":", "0", "2", ":", "0", "1">>

\* '23:59:59'
T_235959 ==
    <<"2", "3", ":", "5", "9", ":", "5", "9">>

\* '10:01:00.500'
T_100100_5 ==
    <<"1", "0", ":", "0", "1", ":", "0", "0", ".", "5", "0", "0">>

\* '10:00:00.123'
T_100000_123 ==
    <<"1", "0", ":", "0", "0", ":", "0", "0", ".", "1", "2", "3">>

\* 'bad'
T_bad ==
    <<"b", "a", "d">>

\* ''
T_empty ==
    <<>>

\* '10:00'
T_1000 ==
    <<"1", "0", ":", "0", "0">>

\* '10:00:00:00'
T_10000000 ==
    <<"1", "0", ":", "0", "0", ":", "0", "0", ":", "0", "0">>

\* '1a:00:00'
T_1a0000 ==
    <<"1", "a", ":", "0", "0", ":", "0", "0">>

\* '10::00'
T_10__00 ==
    <<"1", "0", ":", ":", "0", "0">>

\* '.10:00:00'
T_dot ==
    <<".", "1", "0", ":", "0", "0", ":", "0", "0">>

\* '1:2:3'
T_1_2_3 ==
    <<"1", ":", "2", ":", "3">>

\* '-1:00:00'
T_neg ==
    <<"-", "1", ":", "0", "0", ":", "0", "0">>


\* times in HH:MM:SS
WellFormedTimes ==
    {T_000001, T_100000, T_100100, T_100130, T_100200, T_100201, T_235959}

\* a well-formed time followed by a fraction of a second
FractionTimes == {T_100100_5, T_100000_123}

\* texts from which time_difference cannot read three numbers
MalformedTimes == {T_bad, T_empty, T_1000, T_10000000, T_1a0000, T_10__00, T_dot}

\* texts that are not HH:MM:SS and from which int() still reads three numbers
LenientTimes == {T_1_2_3, T_neg}

TimeTexts == WellFormedTimes \cup FractionTimes \cup MalformedTimes \cup LenientTimes

\* 'Loud and Clear'
C_LoudAndClear ==
    <<"L", "o", "u", "d", " ", "a", "n", "d", " ", "C", "l", "e", "a", "r">>

\* 'loud and clear'
C_loud ==
    <<"l", "o", "u", "d", " ", "a", "n", "d", " ", "c", "l", "e", "a", "r">>

\* 'READABLE NOISY'
C_READABLE ==
    <<"R", "E", "A", "D", "A", "B", "L", "E", " ", "N", "O", "I", "S", "Y">>

\* 'readable noisy signal'
C_readable_signal ==
    <<"r", "e", "a", "d", "a", "b", "l", "e", " ", "n", "o", "i", "s", "y", " ", "s", "i", "g", "n", "a", "l">>

\* 'noisy'
C_noisy ==
    <<"n", "o", "i", "s", "y">>

\* '  Noisy \n'
C_Noisy_pad ==
    <<" ", " ", "N", "o", "i", "s", "y", " ", "\n">>

\* 'noisy but loud and clear'
C_noisy_but_loud ==
    <<"n", "o", "i", "s", "y", " ", "b", "u", "t", " ", "l", "o", "u", "d", " ", "a", "n", "d", " ", "c", "l", "e", "a", "r">>

\* 'Readable Noisy, then Loud And Clear'
C_readable_and_loud ==
    <<"R", "e", "a", "d", "a", "b", "l", "e", " ", "N", "o", "i", "s", "y", ",", " ", "t", "h", "e", "n", " ", "L", "o", "u", "d", " ", "A", "n", "d", " ", "C", "l", "e", "a", "r">>

\* 'unreadable'
C_unreadable ==
    <<"u", "n", "r", "e", "a", "d", "a", "b", "l", "e">>

\* ''
C_empty ==
    <<>>

\* 'loud  and clear'
C_loud_gap ==
    <<"l", "o", "u", "d", " ", " ", "a", "n", "d", " ", "c", "l", "e", "a", "r">>

\* 'nois'
C_nois ==
    <<"n", "o", "i", "s">>

\* 'readable, noisy'
C_reada_ble ==
    <<"r", "e", "a", "d", "a", "b", "l", "e", ",", " ", "n", "o", "i", "s", "y">>


CommTexts ==
    {C_LoudAndClear, C_loud, C_READABLE, C_readable_signal, C_noisy, C_Noisy_pad,
     C_noisy_but_loud, C_readable_and_loud, C_unreadable, C_empty, C_loud_gap,
     C_nois, C_reada_ble}

----------------------------------------------------------------------------
(* The helper functions, called on their own *)

CallTimeDifference ==
    \E t1, t2 \in TimeTexts :
        /\ fcall' = [fn |-> "time_difference", time1 |-> t1, time2 |-> t2]
        /\ fret' = TimeDifference(t1, t2)
        /\ UNCHANGED <<store, ingestVars, hreq, hresp, hsession_open>>

CallGetCommStateValue ==
    \E c \in CommTexts :
        /\ fcall' = [fn |-> "get_comm_state_value", comm_state |-> c]
        /\ fret' = GetCommStateValue(c)
        /\ UNCHANGED <<store, ingestVars, hreq, hresp, hsession_open>>

NextMath ==
    \/ CallTimeDifference
    \/ CallGetCommStateValue

SpecMath == Init /\ [][NextMath]_vars

----------------------------------------------------------------------------
(* Texts as the store compares and orders them *)

\* the characters of the texts below, in the order of their code points
Alphabet ==
    <<" ", "-", ".", "0", "1", "2", "3", "4", "5", "6", "7", "8", "9", ":",
      "A", "B", "C", "D", "E", "F", "G", "H", "I", "J", "K", "L", "M",
      "N", "O", "P", "Q", "R", "S", "T", "U", "V", "W", "X", "Y", "Z", "_",
      "a", "b", "c", "d", "e", "f", "g", "h", "i", "j", "k", "l", "m",
      "n", "o", "p", "q", "r", "s", "t", "u", "v", "w", "x", "y", "z">>

RankOf ==
    [c \in {Alphabet[k] : k \in 1..Len(Alphabet)} |->
        CHOOSE k \in 1..Len(Alphabet) : Alphabet[k] = c]

CharRank(c) == RankOf[c]

\* a < b for two texts, character by character; a proper prefix is smaller
TextLess(a, b) ==
    \E k \in 1..(Len(b)) :
        /\ \A i \in 1..(k - 1) : i <= Len(a) /\ a[i] = b[i]
        /\ \/ k = Len(a) + 1
           \/ k <= Len(a) /\ CharRank(a[k]) < CharRank(b[k])

TextLeq(a, b) == a = b \/ TextLess(a, b)

\* column BETWEEN lo AND hi on a text column
Between(v, lo, hi) == TextLeq(lo, v) /\ TextLeq(v, hi)

AllDigits(f) == Len(f) > 0 /\ \A i \in 1..Len(f) : f[i] \in Digits

DaysInMonth(y, m) ==
    IF m \in {4, 6, 9, 11} THEN 30
    ELSE IF m # 2 THEN 31
    ELSE IF (y % 4 = 0 /\ y % 100 # 0) \/ y % 400 = 0 THEN 29
    ELSE 28

\* datetime.strptime(text, "%Y-%m-%d") returns rather than raising ValueError:
\* four digits, one or two digits of a month, one or two digits of a day of
\* that month
StrptimeOk(v) ==
    LET f == SplitOn(v, "-")
    IN  /\ Len(f) = 3
        /\ Len(f[1]) = 4 /\ AllDigits(f[1]) /\ DigitsValue(f[1]) >= 1
        /\ Len(f[2]) \in {1, 2} /\ AllDigits(f[2])
        /\ DigitsValue(f[2]) \in 1..12
        /\ Len(f[3]) \in {1, 2} /\ AllDigits(f[3])
        /\ DigitsValue(f[3]) \in 1..DaysInMonth(DigitsValue(f[1]), DigitsValue(f[2]))

Pad2(f) == IF Len(f) = 1 THEN <<"0">> \o f ELSE f

\* datetime.strptime(text, "%Y-%m-%d").date().strftime("%Y-%m-%d"), for a
\* text strptime accepts: month and day in two digits
IsoDate(v) ==
    LET f == SplitOn(v, "-")
    IN  f[1] \o <<"-">> \o Pad2(f[2]) \o <<"-">> \o Pad2(f[3])

----------------------------------------------------------------------------
(* haversine_distance *)

\* The latitudes, in whole degrees, at which the haversine term a of a point
\* and its antipode (latitude negated, longitude 180 degrees away) exceeds 1
\* when the source's formula is evaluated in IEEE double precision, so that
\* math.sqrt(1 - a) raises ValueError.
DomainErrorLatitudes == {-82, -12, -8, 8, 12, 82}

HaversineRaises(lat1, lon1, lat2, lon2) ==
    /\ lat2 = -lat1
    /\ Abs(lon2 - lon1) = 180
    /\ lat1 \in DomainErrorLatitudes

\* R * c in whole metres for the points the rows below are at, as the
\* source's formula gives them
Metres(lat1, lon1, lat2, lon2) ==
    LET P == {<<lat1, lon1>>, <<lat2, lon2>>}
    IN  CASE P = {<<0, 0>>, <<0, 1>>} -> 111195
          [] P = {<<0, 0>>, <<82, 80>>} -> 9853559
          [] P = {<<0, 0>>, <<-82, -100>>} -> 10161527
          [] P = {<<0, 1>>, <<82, 80>>} -> 9838339
          [] P = {<<0, 1>>, <<-82, -100>>} -> 10176748
          [] OTHER -> 0

\* haversine_distance(lat1, lon1, lat2, lon2): a distance, or ValueError raised
HaversineDistance(lat1, lon1, lat2, lon2) ==
    IF HaversineRaises(lat1, lon1, lat2, lon2)
    THEN [raised |-> TRUE, v |-> 0]
    ELSE [raised |-> FALSE, v |-> Metres(lat1, lon1, lat2, lon2)]

----------------------------------------------------------------------------
(* generate_station_report *)

\* the rows of the table that the filter of the query selects
Selected(st, r) ==
    {st[i] : i \in {k \in 1..Len(st) :
        /\ Between(st[k].sample_date, r.start_date, r.end_date)
        /\ st[k].station \in {r.station1, r.station2}}}

\* ORDER BY sample_date, sample_time puts a before b
RowBefore(a, b) ==
    \/ TextLess(a.sample_date, b.sample_date)
    \/ a.sample_date = b.sample_date /\ TextLess(a.sample_time, b.sample_time)

\* the sequences in which the ordered query may return the rows S: rows
\* equal in date and time come in any order
RECURSIVE OrderedResults(_)
OrderedResults(S) ==
    IF S = {} THEN {<<>>}
    ELSE UNION {{<<m>> \o q : q \in OrderedResults(S \ {m})} :
                    m \in {x \in S : \A y \in S : ~RowBefore(y, x)}}

\* query.all()
QueryResults(st, r) == OrderedResults(Selected(st, r))

\* [s for s in samples if str(s.station) == station]
OfStation(samples, station) == SelectSeq(samples, LAMBDA s : s.station = station)

TOLERANCE_SECONDS == 120

\* a condition that lets a pair one second further apart through
Qualifies_OneMore(s1, s2) ==
    /\ s1.sample_date = s2.sample_date
    /\ Leq(TimeDifference(s1.sample_time, s2.sample_time), TOLERANCE_SECONDS + 1)

\* s1_date == s2_date and time_diff <= 120
Qualifies(s1, s2) ==
    /\ s1.sample_date = s2.sample_date
    /\ Leq(TimeDifference(s1.sample_time, s2.sample_time), TOLERANCE_SECONDS)

\* a numbering that starts at 0
SerialAfter_FromZero(n) == n

\* 'serial': len(matched_pairs) + 1
SerialAfter(n) == n + 1

Mean == <<" ", "(", "m", "e", "a", "n", ")">>

\* the dict appended to matched_pairs; i1 and i2 record the positions of the
\* two samples in station1_samples and station2_samples
PairOf(n, s1, s2, i1, i2) ==
    [serial           |-> SerialAfter(n),
     date             |-> s1.sample_date,
     time             |-> s1.sample_time \o Mean,
     lat_station1     |-> s1.lat,
     lon_station1     |-> s1.lon,
     lat_station2     |-> s2.lat,
     lon_station2     |-> s2.lon,
     distance         |-> HaversineDistance(s1.lat, s1.lon, s2.lat, s2.lon).v,
     comm_state       |-> s1.comm_state,
     comm_state_value |-> GetCommStateValue(s1.comm_state),
     i1               |-> i1,
     i2               |-> i2]

\* The inner loop for one station-1 sample: the position of the station-2
\* sample whose dict is appended before the break, or 0 when the loop ends
\* without one. A sample that qualifies and for which haversine_distance
\* raises is passed over by the except branch's continue.
MatchOf(s1, st2) ==
    LET Hits == {j \in 1..Len(st2) :
                    /\ Qualifies(s1, st2[j])
                    /\ ~HaversineDistance(s1.lat, s1.lon, st2[j].lat, st2[j].lon).raised}
    IN  IF Hits = {} THEN 0 ELSE Min(Hits)

\* the outer loop from station-1 position i on, matched_pairs being acc
RECURSIVE MatchFrom(_, _, _, _)
MatchFrom(st1, st2, i, acc) ==
    IF i > Len(st1) THEN acc
    ELSE LET j == MatchOf(st1[i], st2)
         IN  MatchFrom(st1, st2, i + 1,
                 IF j = 0 THEN acc
                 ELSE Append(acc, PairOf(Len(acc), st1[i], st2[j], i, j)))

\* a matching in which a station-2 sample that is in a pair is not offered
\* to later station-1 samples
RECURSIVE MatchFrom_Consuming(_, _, _, _)
MatchFrom_Consuming(st1, st2, i, acc) ==
    IF i > Len(st1) THEN acc
    ELSE LET Used == {acc[k].i2 : k \in 1..Len(acc)}
             Hits == {j \in (1..Len(st2)) \ Used :
                         /\ Qualifies(st1[i], st2[j])
                         /\ ~HaversineDistance(st1[i].lat, st1[i].lon,
                                               st2[j].lat, st2[j].lon).raised}
         IN  MatchFrom_Consuming(st1, st2, i + 1,
                 IF Hits = {} THEN acc
                 ELSE Append(acc, PairOf(Len(acc), st1[i], st2[Min(Hits)], i, Min(Hits))))

MatchedPairs_Consuming(st1, st2) == MatchFrom_Consuming(st1, st2, 1, <<>>)

MatchedPairs(st1, st2) == MatchFrom(st1, st2, 1, <<>>)

\* a count that takes every heard signal as a success
IsSuccessful_AnySignal(v) == v \in {1, 2, 3}

\* pair['comm_state_value'] in [2, 3]
IsSuccessful(v) == v \in {2, 3}

\* successful_communications after the loop over the data rows
SuccessfulCommunications(pairs) ==
    Cardinality({k \in 1..Len(pairs) : IsSuccessful(pairs[k].comm_state_value)})

\* s / n * 100 as the format :.1f prints it, in tenths of a percent: the
\* nearest tenth, the even one when two are equally near
RateTenths(s, n) ==
    LET q == (1000 * s) \div n
        r == (1000 * s) % n
    IN  IF 2 * r < n THEN q
        ELSE IF 2 * r > n THEN q + 1
        ELSE IF q % 2 = 0 THEN q ELSE q + 1

InvalidDateDetail == "Invalid date format"

NoDataDetail == "No data found for the specified criteria"

NoStationDataDetail == "No data found for stations"

\* a no-match message worded as the no-data one
NoMatchDetail_AsNoData == NoDataDetail

NoMatchDetail == "No matching time pairs found within 1.5-minute window"

ReportFailedDetail == "Report generation failed"

HTTPError(status, detail) == [status |-> status, detail |-> detail]

\* the outcome with the workbook: its data rows and its summary line
ReportResponse(st1, st2, pairs) ==
    [status                    |-> 200,
     matched_pairs             |-> pairs,
     successful_communications |-> SuccessfulCommunications(pairs),
     total                     |-> Len(pairs),
     rate_tenths               |-> RateTenths(SuccessfulCommunications(pairs), Len(pairs)),
     station1_samples          |-> st1,
     station2_samples          |-> st2]

\* a test that lets an empty list of pairs through
NoPairs_NeverTrue(pairs) == FALSE

\* if not matched_pairs
NoPairs(pairs) == pairs = <<>>

\* The workbook stage. The summary line divides by len(matched_pairs): with
\* no pair the division raises ZeroDivisionError, which the except Exception
\* branch of the handler turns into a 500.
Assemble(st1, st2, pairs) ==
    IF Len(pairs) = 0
    THEN [status    |-> 500,
          detail    |-> ReportFailedDetail,
          exception |-> "ZeroDivisionError"]
    ELSE ReportResponse(st1, st2, pairs)

\* generate_station_report, the query having returned samples
StationReport(r, samples) ==
    LET st1 == OfStation(samples, r.station1)
        st2 == OfStation(samples, r.station2)
        pairs == MatchedPairs(st1, st2)
    IN  IF ~StrptimeOk(r.start_date) \/ ~StrptimeOk(r.end_date)
        THEN HTTPError(400, InvalidDateDetail)
        ELSE IF samples = <<>>
        THEN HTTPError(404, NoDataDetail)
        ELSE IF st1 = <<>> \/ st2 = <<>>
        THEN HTTPError(404, NoStationDataDetail)
        ELSE IF NoPairs(pairs)
        THEN [status         |-> 404,
              detail         |-> NoMatchDetail,
              station1_times |-> [k \in 1..Len(st1) |-> st1[k].sample_time],
              station2_times |-> [k \in 1..Len(st2) |-> st2[k].sample_time]]
        ELSE Assemble(st1, st2, pairs)

----------------------------------------------------------------------------
(* The report handler: its inputs and its steps *)

MaxRows == 4

\* '10:00:30'
T_100030 ==
    <<"1", "0", ":", "0", "0", ":", "3", "0">>

\* '00:00:30'
T_000030 ==
    <<"0", "0", ":", "0", "0", ":", "3", "0">>

Date1 == <<"2", "0", "2", "4", "-", "0", "1", "-", "1", "5">>

Date2 == <<"2", "0", "2", "4", "-", "0", "1", "-", "1", "6">>

\* a date strptime accepts and that is not in two-digit form
DateShort == <<"2", "0", "2", "4", "-", "1", "-", "1", "5">>

\* a date strptime rejects
DateWrong == <<"2", "0", "2", "4", "-", "1", "3", "-", "0", "1">>

\* a row of the table as the report reads it
ReportRow(id, station, d, t, lat, lon, comm) ==
    [NewRow(Sample(id, lat, lon, 0, d, t), "d1")
        EXCEPT !.station = station, !.comm_state = comm]

RowA1 == ReportRow(101, "alpha", Date1, T_100000, 0, 0, C_LoudAndClear)

RowA2 == ReportRow(102, "alpha", Date1, T_100030, 0, 0, C_noisy)

RowA3 == ReportRow(103, "alpha", Date1, T_235959, 0, 0, C_readable_signal)

RowA4 == ReportRow(104, "alpha", Date1, T_100000, -82, -100, C_loud)

RowA6 == ReportRow(106, "alpha", Date2, T_000030, 0, 0, C_READABLE)

RowB1 == ReportRow(201, "bravo", Date1, T_100100, 82, 80, C_noisy)

RowB2 == ReportRow(202, "bravo", Date1, T_100130, 0, 1, C_loud)

RowB3 == ReportRow(203, "bravo", Date1, T_100200, 0, 1, C_READABLE)

RowB4 == ReportRow(204, "bravo", Date1, T_100201, 0, 1, C_unreadable)

RowB5 == ReportRow(205, "bravo", Date2, T_000001, 0, 1, C_loud)

RowB6 == ReportRow(206, "bravo", Date1, T_bad, 0, 1, C_loud)

RowB7 == ReportRow(207, "bravo", Date1, T_100000_123, 0, 1, C_noisy)

ReportRows ==
    {RowA1, RowA2, RowA3, RowA4, RowA6,
     RowB1, RowB2, RowB3, RowB4, RowB5, RowB6, RowB7}

\* the rows S as a table, in the order of their client_id
TableOf(S) ==
    [k \in 1..Cardinality(S) |->
        CHOOSE x \in S : Cardinality({y \in S : y.client_id < x.client_id}) = k - 1]

ReportStores == {TableOf(S) : S \in {X \in SUBSET ReportRows : Cardinality(X) <= MaxRows}}

ReportRequestOf(d, s) ==
    [endpoint |-> "generate-station-report", start_date |-> d[1], end_date |-> d[2],
     station1 |-> s[1], station2 |-> s[2]]

ReportRequests ==
    {ReportRequestOf(d, s) :
        d \in {<<Date1, Date1>>, <<Date1, Date2>>, <<Date2, Date1>>},
        s \in {<<"alpha", "bravo">>, <<"bravo", "alpha">>, <<"alpha", "charlie">>}}
    \cup {ReportRequestOf(d, <<"alpha", "bravo">>) :
        d \in {<<DateWrong, Date1>>, <<Date1, DateWrong>>}}

InitReport ==
    /\ store \in ReportStores
    /\ IngestIdle
    /\ ReadIdle

\* A request arrives and Depends(get_db) opens its session.
ReportRequest ==
    /\ hreq = NoRequest
    /\ \E r \in ReportRequests : hreq' = r
    /\ hresp' = NoResponse
    /\ hsession_open' = TRUE
    /\ UNCHANGED <<store, ingestVars, fcall, fret>>

\* The handler runs to its return or to the HTTPException it raises.
GenerateStationReport ==
    /\ hreq # NoRequest
    /\ hreq.endpoint = "generate-station-report"
    /\ hresp = NoResponse
    /\ \E samples \in QueryResults(store, hreq) :
           hresp' = StationReport(hreq, samples)
    /\ UNCHANGED <<store, ingestVars, hreq, hsession_open, fcall, fret>>

\* The query raises for a reason of the infrastructure: the handler's
\* except Exception branch answers 500.
GenerateStationReportFails ==
    /\ hreq # NoRequest
    /\ hreq.endpoint = "generate-station-report"
    /\ hresp = NoResponse
    /\ hresp' = IF ~StrptimeOk(hreq.start_date) \/ ~StrptimeOk(hreq.end_date)
                THEN HTTPError(400, InvalidDateDetail)
                ELSE HTTPError(500, ReportFailedDetail)
    /\ UNCHANGED <<store, ingestVars, hreq, hsession_open, fcall, fret>>

\* The response is sent and get_db's finally closes the session; hresp keeps
\* the response that was sent until the next request.
GetDbClose ==
    /\ hreq # NoRequest
    /\ hresp # NoResponse
    /\ hsession_open' = SessionAfterExit(hresp.status)
    /\ hreq' = NoRequest
    /\ UNCHANGED <<store, ingestVars, hresp, fcall, fret>>

NextReport ==
    \/ ReportRequest
    \/ GenerateStationReport
    \/ GenerateStationReportFails
    \/ GetDbClose

SpecReport == InitReport /\ [][NextReport]_vars

----------------------------------------------------------------------------
(* The trajectory endpoints *)

MaxTrajRows == 3

St_a == <<"a">>

St_b == <<"b">>

St_a_b == <<"a", "_", "b">>

Dev_c == <<"c">>

Dev_d == <<"d">>

Dev_b_c == <<"b", "_", "c">>

\* a filter that is not given (None), or given empty
NoFilter == <<>>

\* a row of the table as the trajectory endpoints read it
TrajRow(id, station, device, d, captured) ==
    [ReportRow(id, station, d, T_100000, 0, 0, C_loud) EXCEPT !.device_id = device]
        @@ [captured_at_utc |-> captured]

Traj1 == TrajRow(301, St_a, Dev_b_c, Date1, 1000)

Traj2 == TrajRow(302, St_a_b, Dev_c, Date1, 2000)

Traj3 == TrajRow(303, St_a, Dev_c, Date1, 3000)

Traj4 == TrajRow(304, St_a, Dev_b_c, Date1, 4000)

Traj5 == TrajRow(305, St_a_b, Dev_d, Date1, 1000)

Traj6 == TrajRow(306, St_a, Dev_c, Date2, 5000)

Traj7 == TrajRow(307, St_a, Dev_d, Date2, 6000)

Traj8 == TrajRow(308, St_b, Dev_c, Date1, 1000)

TrajRows == {Traj1, Traj2, Traj3, Traj4, Traj5, Traj6, Traj7, Traj8}

TrajStores == {TableOf(S) : S \in {X \in SUBSET TrajRows : Cardinality(X) <= MaxTrajRows}}

\* the days datetime.now().date() may be
Today == {Date1, Date2}

TrajectoryRequests ==
    {[endpoint |-> "trajectories", date_filter |-> d, station_filter |-> s,
      device_filter |-> v] :
        d \in {NoFilter, Date1, DateShort, DateWrong},
        s \in {NoFilter, St_a}, v \in {NoFilter, Dev_c}}

DateRangeRequests ==
    {[endpoint |-> "trajectories/date-range", start_date |-> d[1], end_date |-> d[2],
      station |-> s, device_id |-> NoFilter] :
        d \in {<<Date1, Date1>>, <<DateShort, Date2>>, <<DateWrong, Date1>>},
        s \in {NoFilter, St_a_b}}

\* if filter: query.filter(column == filter)
PassesFilter(v, filter) == filter = NoFilter \/ v = filter

\* ORDER BY station, device_id, captured_at_utc puts a before b
TrajBefore(a, b) ==
    \/ TextLess(a.station, b.station)
    \/ /\ a.station = b.station
       /\ \/ TextLess(a.device_id, b.device_id)
          \/ a.device_id = b.device_id /\ a.captured_at_utc < b.captured_at_utc

\* ORDER BY sample_date, station, device_id, captured_at_utc puts a before b
RangeBefore(a, b) ==
    \/ TextLess(a.sample_date, b.sample_date)
    \/ a.sample_date = b.sample_date /\ TrajBefore(a, b)

RECURSIVE TrajOrdered(_)
TrajOrdered(S) ==
    IF S = {} THEN {<<>>}
    ELSE UNION {{<<m>> \o q : q \in TrajOrdered(S \ {m})} :
                    m \in {x \in S : \A y \in S : ~TrajBefore(y, x)}}

RECURSIVE RangeOrdered(_)
RangeOrdered(S) ==
    IF S = {} THEN {<<>>}
    ELSE UNION {{<<m>> \o q : q \in RangeOrdered(S \ {m})} :
                    m \in {x \in S : \A y \in S : ~RangeBefore(y, x)}}

\* a key made of the station alone
TrajectoryKey_StationOnly(row) == row.station

\* trajectory_key = f"{row.station}_{row.device_id}"
TrajectoryKey(row) == row.station \o <<"_">> \o row.device_id

\* the dict appended to the coordinates of a trajectory
CoordinateOf(row) ==
    [lat |-> row.lat, lng |-> row.lon, station |-> row.station,
     device_id |-> row.device_id, sample_date |-> row.sample_date,
     sample_time |-> row.sample_time, captured_at_utc |-> row.captured_at_utc,
     accuracy |-> row.acc]

\* one turn of the grouping loop: trajectories, a dict in insertion order
\* kept as a sequence of its values with their keys, after the row
GroupInto(trajectories, row) ==
    LET key == TrajectoryKey(row)
        K == {k \in 1..Len(trajectories) : trajectories[k].key = key}
    IN  IF K = {}
        THEN Append(trajectories,
                 [key |-> key, station |-> row.station, device_id |-> row.device_id,
                  coordinates |-> <<CoordinateOf(row)>>])
        ELSE [k \in 1..Len(trajectories) |->
                 IF k \in K
                 THEN [trajectories[k] EXCEPT
                          !.coordinates = Append(@, CoordinateOf(row))]
                 ELSE trajectories[k]]

RECURSIVE GroupFrom(_, _, _)
GroupFrom(rows, i, trajectories) ==
    IF i > Len(rows) THEN trajectories
    ELSE GroupFrom(rows, i + 1, GroupInto(trajectories, rows[i]))

\* the loop over rows, from an empty dict
Trajectories(rows) == GroupFrom(rows, 1, <<>>)

RECURSIVE SumLen(_)
SumLen(groups) ==
    IF groups = <<>> THEN 0
    ELSE Len(groups[1].coordinates) + SumLen(Tail(groups))

TrajectoryResponse(rows) ==
    [status             |-> 200,
     total_trajectories |-> Len(Trajectories(rows)),
     total_coordinates  |-> SumLen(Trajectories(rows)),
     data               |-> Trajectories(rows)]

\* A request to one of the two endpoints arrives; get_db opens its session.
TrajectoryRequest ==
    /\ hreq = NoRequest
    /\ \E r \in TrajectoryRequests \cup DateRangeRequests : hreq' = r
    /\ hresp' = NoResponse
    /\ hsession_open' = TRUE
    /\ UNCHANGED <<store, ingestVars, fcall, fret>>

\* get_trajectories
GetTrajectories ==
    /\ hreq.endpoint = "trajectories"
    /\ hresp = NoResponse
    /\ IF hreq.date_filter # NoFilter /\ ~StrptimeOk(hreq.date_filter)
       THEN hresp' = HTTPError(400, InvalidDateDetail)
       ELSE \E target_date \in IF hreq.date_filter = NoFilter THEN Today
                               ELSE {IsoDate(hreq.date_filter)} :
            \E rows \in TrajOrdered({store[i] : i \in {k \in 1..Len(store) :
                            /\ store[k].sample_date = target_date
                            /\ PassesFilter(store[k].station, hreq.station_filter)
                            /\ PassesFilter(store[k].device_id, hreq.device_filter)}}) :
                hresp' = TrajectoryResponse(rows)
    /\ UNCHANGED <<store, ingestVars, hreq, hsession_open, fcall, fret>>

\* get_trajectories_date_range
GetTrajectoriesDateRange ==
    /\ hreq.endpoint = "trajectories/date-range"
    /\ hresp = NoResponse
    /\ IF ~StrptimeOk(hreq.start_date) \/ ~StrptimeOk(hreq.end_date)
       THEN hresp' = HTTPError(400, InvalidDateDetail)
       ELSE \E rows \in RangeOrdered({store[i] : i \in {k \in 1..Len(store) :
                            /\ Between(store[k].sample_date, IsoDate(hreq.start_date),
                                       IsoDate(hreq.end_date))
                            /\ PassesFilter(store[k].station, hreq.station)
                            /\ PassesFilter(store[k].device_id, hreq.device_id)}}) :
                hresp' = TrajectoryResponse(rows)
    /\ UNCHANGED <<store, ingestVars, hreq, hsession_open, fcall, fret>>

InitTraj ==
    /\ store \in TrajStores
    /\ IngestIdle
    /\ ReadIdle

NextTraj ==
    \/ TrajectoryRequest
    \/ GetTrajectories
    \/ GetTrajectoriesDateRange
    \/ GetDbClose

SpecTraj == InitTraj /\ [][NextTraj]_vars

----------------------------------------------------------------------------
(* Sessions: every handler under get_db, with the scheduling of the server *)

SampleNotFoundDetail == "Sample not found"

DatabaseErrorDetail == "Database error"

\* GET /samples/{client_id} arrives; get_db opens its session.
SampleRequest ==
    /\ hreq = NoRequest
    /\ \E id \in Ids(<<SampleA, SampleC, SampleBadLat>>) :
           hreq' = [endpoint |-> "samples", client_id |-> id]
    /\ hresp' = NoResponse
    /\ hsession_open' = TRUE
    /\ UNCHANGED <<store, ingestVars, fcall, fret>>

\* get_sample_by_id
GetSampleById ==
    /\ hreq.endpoint = "samples"
    /\ hresp = NoResponse
    /\ hresp' = IF Exists(store, hreq.client_id)
                THEN [status |-> 200,
                      sample |-> store[CHOOSE i \in 1..Len(store) :
                                           store[i].client_id = hreq.client_id]]
                ELSE HTTPError(404, SampleNotFoundDetail)
    /\ UNCHANGED <<store, ingestVars, hreq, hsession_open, fcall, fret>>

\* The query of get_sample_by_id raises: except Exception answers 500.
GetSampleByIdFails ==
    /\ hreq.endpoint = "samples"
    /\ hresp = NoResponse
    /\ hresp' = HTTPError(500, DatabaseErrorDetail)
    /\ UNCHANGED <<store, ingestVars, hreq, hsession_open, fcall, fret>>

NextLive ==
    \/ ReceiveSmall("p1")
    \/ Lookup("p1")
    \/ QueryFail("p1")
    \/ Commit("p1")
    \/ CommitFail("p1")
    \/ Finish("p1")
    \/ SampleRequest
    \/ GetSampleById
    \/ GetSampleByIdFails
    \/ GetDbClose

\* A handler that has started runs on to its response, and the response is
\* followed by the exit of get_db; requests need not arrive.
Fairness ==
    /\ WF_vars(Lookup("p1") \/ QueryFail("p1"))
    /\ WF_vars(Commit("p1") \/ CommitFail("p1"))
    /\ WF_vars(Finish("p1"))
    /\ WF_vars(GetSampleById \/ GetSampleByIdFails)
    /\ WF_vars(GetDbClose)

SpecLive == Init /\ [][NextLive]_vars /\ Fairness

----------------------------------------------------------------------------
(* A client that re-submits its batch until the call succeeds *)

\* the batches of a retrying caller: one or more well-formed samples
RetryRequests(p) ==
    {[deviceId |-> DeviceOf(p), samples |-> b] :
        b \in SeqsUpTo(SamplesOf(p), MaxBatch) \ {<<>>}}

\* The first submission of a batch.
FirstSubmit(p) == \E r \in RetryRequests(p) : Receive(p, r)

\* The error response is sent, get_db's finally closes the session, and the
\* client submits the same body again: a new session is opened and the handler
\* runs up to the call of create_location_samples_bulk.
Retry(p) ==
    /\ pc[p] = "responded"
    /\ resp[p].status # 201
    /\ ValidRequest(req[p])
    /\ Len(req[p].samples) <= HANDLER_LIMIT
    /\ session_open' = [session_open EXCEPT ![p] = TRUE]
    /\ prior' = [prior EXCEPT ![p] = {id \in Ids(req[p].samples) : Exists(store, id)}]
    /\ pc' = [pc EXCEPT ![p] = "loop"]
    /\ idx' = [idx EXCEPT ![p] = 1]
    /\ successful_ids' = [successful_ids EXCEPT ![p] = <<>>]
    /\ failed_samples' = [failed_samples EXCEPT ![p] = <<>>]
    /\ exc' = [exc EXCEPT ![p] = "none"]
    /\ resp' = [resp EXCEPT ![p] = NoResponse]
    /\ UNCHANGED <<store, req, pending>>
    /\ UNCHANGED readVars

\* The success response is sent and the client is done with the batch.
Done(p) ==
    /\ resp[p].status = 201
    /\ Finish(p)

NextRetry ==
    \E p \in Procs :
        \/ FirstSubmit(p)
        \/ Lookup(p)
        \/ Commit(p)
        \/ CommitFail(p)
        \/ Retry(p)
        \/ Done(p)

\* A handler that has started runs on to its response; a commit is not
\* failed by the infrastructure every time; the client re-submits after
\* every error. New batches need not arrive.
FairnessRetry ==
    \A p \in Procs :
        /\ WF_vars(Lookup(p))
        /\ SF_vars(Commit(p))
        /\ WF_vars(Retry(p))
        /\ WF_vars(Done(p))

SpecRetry == Init /\ [][NextRetry]_vars /\ FairnessRetry

----------------------------------------------------------------------------
(* Properties *)

Responded(p) == pc[p] = "responded"

Succeeded(p) == Responded(p) /\ resp[p].status = 201

\* the accepted list the caller of p receives
SyncedIds(p) == IF resp[p].status = 201 THEN resp[p].body.synced_ids ELSE <<>>

Elems(q) == {q[i] : i \in 1..Len(q)}

\* the positions of the table's rows with this client_id
RowsOf(id) == {i \in 1..Len(store) : store[i].client_id = id}

\* the client_ids of a batch, in the order of the batch
IdList(samples) == [i \in 1..Len(samples) |-> samples[i].id]

NoRepeats(samples) ==
    \A i, j \in 1..Len(samples) : i # j => samples[i].id # samples[j].id

\* no failure of the infrastructure (a query or the commit) hit the call of p
NoInfraFault(p) == exc[p] # "OperationalError" /\ failed_samples[p] = <<>>

\* C1: a batch whose client_ids are all stored when the call starts (what a
\* committed first call of the same batch leaves) is answered with success, its
\* accepted list is the batch's client_ids, and the table holds exactly one row
\* for each of them; failures of the infrastructure aside.
C1_ResubmissionIdempotent ==
    \A p \in Procs :
        (/\ Responded(p)
         /\ req[p].samples # <<>>
         /\ Ids(req[p].samples) \subseteq prior[p]
         /\ NoInfraFault(p))
        => /\ resp[p].status = 201
           /\ SyncedIds(p) = IdList(req[p].samples)
           /\ \A id \in Ids(req[p].samples) : Cardinality(RowsOf(id)) = 1

C1_Witness ==
    \E p \in Procs :
        /\ Succeeded(p)
        /\ req[p].samples # <<>>
        /\ Ids(req[p].samples) \subseteq prior[p]
        /\ SyncedIds(p) = IdList(req[p].samples)

\* C2: in every reachable state no two rows of the table have the same
\* client_id, whatever the interleaving of the bulk ingest calls.
C2_UniqueClientId ==
    \A i, j \in 1..Len(store) :
        i # j => store[i].client_id # store[j].client_id

\* two calls in flight shared a client_id that was not stored when they
\* started; one committed it and the other met the constraint
C2_Witness ==
    \E p, q \in Procs :
        /\ p # q
        /\ Succeeded(p)
        /\ Responded(q)
        /\ exc[q] = "IntegrityError"
        /\ \E id \in Ids(req[p].samples) \cap Ids(req[q].samples) :
              id \notin prior[p] /\ id \notin prior[q] /\ Cardinality(RowsOf(id)) = 1

\* C3: a call whose commit meets the unique constraint because another call
\* committed the same client_id first (its own batch repeats no client_id)
\* still answers success, with the batch's client_ids accepted.
C3_RaceLoserSucceeds ==
    \A p \in Procs :
        (/\ Responded(p)
         /\ exc[p] = "IntegrityError"
         /\ NoRepeats(req[p].samples))
        => /\ resp[p].status = 201
           /\ Ids(req[p].samples) \subseteq Elems(SyncedIds(p))

\* C4: when a batch within the size limit holds malformed and well-formed
\* samples, the call is answered with success and every well-formed sample is
\* accepted and stored; failures of the infrastructure aside.
C4_MalformedRejectedIndividually ==
    \A p \in Procs :
        (/\ Responded(p)
         /\ Len(req[p].samples) <= MAX_ITEMS
         /\ \E i \in 1..Len(req[p].samples) : ~ValidSample(req[p].samples[i])
         /\ \E i \in 1..Len(req[p].samples) : ValidSample(req[p].samples[i])
         /\ NoInfraFault(p))
        => /\ resp[p].status = 201
           /\ \A i \in 1..Len(req[p].samples) :
                 ValidSample(req[p].samples[i]) =>
                     /\ req[p].samples[i].id \in Elems(SyncedIds(p))
                     /\ Exists(store, req[p].samples[i].id)

\* C5: a commit step that fails leaves the table exactly as it was before the
\* step, and the call ends with the failure response, not with success.
C5_CommitFailureRollsBack ==
    [][\A p \in Procs :
          (pc[p] = "commit" /\ pc'[p] = "responded" /\ exc'[p] # "none")
          => (store' = store /\ resp'[p].status = 500)]_vars

\* a call failed at its commit with new samples in the transaction, none of
\* which is in the table
C5_Witness ==
    \E p \in Procs :
        /\ Responded(p)
        /\ exc[p] \in {"OperationalError", "IntegrityError"}
        /\ resp[p].status = 500
        /\ \E id \in Elems(successful_ids[p]) : id \notin prior[p] /\ ~Exists(store, id)

\* C6: a batch longer than 1000 samples never enters the loop: it is answered
\* with an error and none of its samples is looked up, accepted or inserted;
\* a batch of exactly 1000 samples is not refused for its size and, when its
\* commit succeeds, all its samples are accepted and stored.
C6_SizeBoundary ==
    \A p \in Procs :
        /\ Len(req[p].samples) > 1000 =>
              /\ Responded(p)
              /\ resp[p].status \notin {0, 201}
              /\ successful_ids[p] = <<>>
              /\ pending[p] = <<>>
              /\ \A id \in Ids(req[p].samples) \ prior[p] : ~Exists(store, id)
        /\ (Len(req[p].samples) = 1000 /\ Responded(p)) =>
              /\ exc[p] \notin {"RequestValidationError", "HTTPException"}
              /\ exc[p] = "none" =>
                    /\ resp[p].status = 201
                    /\ Len(SyncedIds(p)) = 1000
                    /\ \A id \in Ids(req[p].samples) : Exists(store, id)

\* a batch of 1000 was stored, and a batch of 1001 is refused
C6_Witness ==
    /\ Len(store) >= 1000
    /\ \E p \in Procs :
          /\ Responded(p)
          /\ Len(req[p].samples) = 1001
          /\ resp[p].status = 422

\* C7: no step changes or deletes a stored row: every row of the table is, after
\* the step, at the same position with the same fields.
C7_RowsImmutable ==
    [][\A i \in 1..Len(store) : i <= Len(store') /\ store'[i] = store[i]]_vars

\* a call was answered with success for a sample whose client_id was already
\* stored with other fields and another device_id, and the row is still that one
C7_Witness ==
    \E p \in Procs :
        /\ Succeeded(p)
        /\ \E i \in 1..Len(req[p].samples), j \in 1..Len(store) :
              /\ req[p].samples[i].id \in prior[p]
              /\ store[j].client_id = req[p].samples[i].id
              /\ store[j].lat # req[p].samples[i].lat
              /\ store[j].device_id # req[p].deviceId

\* C8: a valid batch in which a client_id that is not yet stored appears more
\* than once is answered with success, and the table then holds exactly one row
\* for every client_id of the batch; failures of the infrastructure aside.
C8_RepeatedIdInBatch ==
    \A p \in Procs :
        (/\ Responded(p)
         /\ ValidRequest(req[p])
         /\ \E i, j \in 1..Len(req[p].samples) :
               /\ i # j
               /\ req[p].samples[i].id = req[p].samples[j].id
               /\ req[p].samples[i].id \notin prior[p]
         /\ NoInfraFault(p))
        => /\ resp[p].status = 201
           /\ \A id \in Ids(req[p].samples) : Cardinality(RowsOf(id)) = 1

\* C9: whenever samples failed during processing, the response delivered to the
\* caller carries them (client_id and error) beside the accepted client_ids.
C9_RejectedItemsReported ==
    \A p \in Procs :
        (Responded(p) /\ failed_samples[p] # <<>>)
        => /\ "body" \in DOMAIN resp[p]
           /\ "synced_ids" \in DOMAIN resp[p].body
           /\ "rejected" \in DOMAIN resp[p].body
           /\ resp[p].body["rejected"] = failed_samples[p]

\* what section 3 of the specification allows for the coordinates
InSpecRanges(s) ==
    /\ s.lat >= -90 /\ s.lat <= 90
    /\ s.lon >= -180 /\ s.lon <= 180
    /\ s.acc >= 0

\* C10: every stored row has lat in [-90, 90], lon in [-180, 180] and acc >= 0;
\* a request with a sample outside these ranges never enters the loop and is
\* answered 422; and the bounds are inclusive: a request refused by validation
\* holds a sample outside the ranges or with a malformed date or time.
C10_StoredRowsInRange ==
    /\ \A i \in 1..Len(store) : InSpecRanges(store[i])
    /\ \A p \in Procs :
          /\ (\E i \in 1..Len(req[p].samples) : ~InSpecRanges(req[p].samples[i]))
                => (Responded(p) /\ resp[p].status = 422)
          /\ (Responded(p) /\ exc[p] = "RequestValidationError")
                => \E i \in 1..Len(req[p].samples) :
                      \/ ~InSpecRanges(req[p].samples[i])
                      \/ req[p].samples[i].sample_date # DateGood
                      \/ req[p].samples[i].sample_time # TimeGood

\* a row with lat = 90 and lon = 180 and a row with acc = 0 are stored, and a
\* request with lat = 95 is refused
C10_Witness ==
    /\ \E i \in 1..Len(store) : store[i].lat = 90 /\ store[i].lon = 180
    /\ \E i \in 1..Len(store) : store[i].acc = 0
    /\ \E p \in Procs :
          /\ Responded(p)
          /\ resp[p].status = 422
          /\ \E i \in 1..Len(req[p].samples) : req[p].samples[i].lat = 95

----------------------------------------------------------------------------
(* Properties of the helper functions *)

\* tolerances a caller may compare a time difference with
Tolerances == {0, 120, 86400, 1000000}

\* the seconds since midnight of a text in HH:MM:SS, read digit by digit
ClockSeconds(t) ==
    (10 * DigitValue(t[1]) + DigitValue(t[2])) * 3600
    + (10 * DigitValue(t[4]) + DigitValue(t[5])) * 60
    + (10 * DigitValue(t[7]) + DigitValue(t[8]))

TimeCall == fcall.fn = "time_difference"

CommCall == fcall.fn = "get_comm_state_value"

\* C12: time_difference never raises; when either text is one from which
\* three numbers cannot be read (after dropping what follows a '.'), it
\* returns the infinite sentinel, which no finite tolerance reaches, so the
\* matcher's test  time_diff <= tolerance  is false for such a pair.
C12_MalformedTimeIsInfinite ==
    TimeCall =>
        /\ ~fret.raised
        /\ (fcall.time1 \in MalformedTimes \/ fcall.time2 \in MalformedTimes) =>
              /\ ~fret.finite
              /\ \A tol \in Tolerances : ~Leq(fret, tol)

C12_Witness ==
    /\ TimeCall
    /\ fcall.time1 = T_bad
    /\ fcall.time2 = T_100000
    /\ fret = Infinity

\* C13: for well-formed times the result is the absolute difference of the
\* seconds since midnight: non-negative, symmetric, without day wrap;
\* 23:59:59 against 00:00:01 gives 86398.
C13_AbsoluteDifference ==
    (TimeCall /\ fcall.time1 \in WellFormedTimes /\ fcall.time2 \in WellFormedTimes) =>
        /\ fret = Seconds(Abs(ClockSeconds(fcall.time1) - ClockSeconds(fcall.time2)))
        /\ fret.v >= 0
        /\ fret = TimeDifference(fcall.time2, fcall.time1)
        /\ (fcall.time1 = T_235959 /\ fcall.time2 = T_000001) => fret.v = 86398

C13_Witness ==
    /\ TimeCall
    /\ fcall.time1 = T_235959
    /\ fcall.time2 = T_000001
    /\ fret = Seconds(86398)

\* the scores the classification is expected to give to the texts called with
ExpectedScore(c) ==
    CASE c \in {C_LoudAndClear, C_loud, C_noisy_but_loud, C_readable_and_loud} -> 3
      [] c \in {C_READABLE, C_readable_signal} -> 2
      [] c \in {C_noisy, C_Noisy_pad, C_reada_ble} -> 1
      [] OTHER -> 0

\* C14: get_comm_state_value gives every text one score in 0..3, whatever
\* the case of its letters: 3 with "loud and clear", else 2 with "readable
\* noisy", else 1 with "noisy", else 0; a text with "readable noisy" and
\* without "loud and clear" scores 2, never 1.
C14_CommStatePriority ==
    CommCall =>
        /\ fret \in 0..3
        /\ fret = ExpectedScore(fcall.comm_state)
        /\ (Contains(Lower(fcall.comm_state), ReadableNoisy)
              /\ ~Contains(Lower(fcall.comm_state), LoudAndClear)) => fret = 2

C14_Witness ==
    /\ CommCall
    /\ fcall.comm_state = C_readable_signal
    /\ fret = 2

----------------------------------------------------------------------------
(* Properties of the station report *)

ReportAnswered ==
    /\ hreq.endpoint = "generate-station-report"
    /\ hresp # NoResponse

ReportBuilt == ReportAnswered /\ hresp.status = 200

\* a text of the form HH:MM:SS
IsClock(t) ==
    /\ Len(t) = 8
    /\ t[3] = ":" /\ t[6] = ":"
    /\ \A i \in {1, 2, 4, 5, 7, 8} : t[i] \in Digits

\* the two samples are of one date, their times (the fraction of a second
\* dropped) are clock times, and these are at most 120 seconds apart
SecondsApart(s1, s2) ==
    Abs(ClockSeconds(BeforeDot(s1.sample_time)) - ClockSeconds(BeforeDot(s2.sample_time)))

BothClocks(s1, s2) ==
    IsClock(BeforeDot(s1.sample_time)) /\ IsClock(BeforeDot(s2.sample_time))

WithinWindow(s1, s2) ==
    /\ s1.sample_date = s2.sample_date
    /\ BothClocks(s1, s2)
    /\ SecondsApart(s1, s2) <= 120

\* the two samples a pair of the report joins
Station1Of(p) == hresp.station1_samples[p.i1]

Station2Of(p) == hresp.station2_samples[p.i2]

PairsOfReport == {hresp.matched_pairs[k] : k \in 1..Len(hresp.matched_pairs)}

\* C11: the station-2 sample of every pair is the first one of the
\* station-2 list, in scan order, that has the date of the station-1 sample
\* and a time at most 120 seconds from it; no later one is chosen.
C11_FirstMatchWins ==
    ReportBuilt =>
        \A p \in PairsOfReport :
            /\ WithinWindow(Station1Of(p), Station2Of(p))
            /\ \A j \in 1..(p.i2 - 1) :
                   ~WithinWindow(Station1Of(p), hresp.station2_samples[j])

\* C15: a request for which the store has no sample of either station in
\* the date range, and a request for which both stations have samples and
\* no two of them are within the window, end differently: both with 404 and
\* no report, with two different details.
C15_EmptyVersusNoMatch ==
    (ReportAnswered /\ hresp.status \notin {400, 500}) =>
        LET S == Selected(store, hreq)
            S1 == {s \in S : s.station = hreq.station1}
            S2 == {s \in S : s.station = hreq.station2}
        IN  /\ S = {} =>
                  /\ hresp.status = 404
                  /\ hresp.detail = "No data found for the specified criteria"
                  /\ hresp.detail # NoMatchDetail
            /\ (S1 # {} /\ S2 # {}
                  /\ \A s1 \in S1, s2 \in S2 : ~WithinWindow(s1, s2)) =>
                  /\ hresp.status = 404
                  /\ hresp.detail = "No matching time pairs found within 1.5-minute window"
                  /\ hresp.detail # NoDataDetail

C15_Witness ==
    /\ ReportAnswered
    /\ hresp.status = 404
    /\ hresp.detail = NoMatchDetail
    /\ Len(hresp.station1_times) > 0
    /\ Len(hresp.station2_times) > 0

\* the scores of the pairs of the report, in their order
ScoresOfReport ==
    [k \in 1..Len(hresp.matched_pairs) |-> hresp.matched_pairs[k].comm_state_value]

\* C16: the summary counts as successful the pairs whose score is 2 or 3,
\* and the rate is that count over the number of pairs as a percentage
\* with one decimal; scores 3 and 1 give 1/2, 50.0%.
C16_SuccessRate ==
    ReportBuilt =>
        LET n == Len(hresp.matched_pairs)
            s == Cardinality({k \in 1..n : ScoresOfReport[k] \in {2, 3}})
        IN  /\ hresp.successful_communications = s
            /\ hresp.total = n
            /\ 2 * Abs(hresp.rate_tenths * n - 1000 * s) <= n
            /\ ScoresOfReport \in {<<3, 1>>, <<1, 3>>} => hresp.rate_tenths = 500

C16_Witness ==
    /\ ReportBuilt
    /\ ScoresOfReport = <<3, 1>>
    /\ hresp.successful_communications = 1
    /\ hresp.rate_tenths = 500

\* C17: the pairs carry the serials 1..n in their order, which is the order
\* of the station-1 samples they come from; a station-1 sample gives at most
\* one pair, so n is at most the number of station-1 samples.
C17_SerialsInOrder ==
    ReportBuilt =>
        LET P == hresp.matched_pairs
        IN  /\ \A k \in 1..Len(P) : P[k].serial = k
            /\ \A j, k \in 1..Len(P) : j < k => P[j].i1 < P[k].i1
            /\ Len(P) <= Len(hresp.station1_samples)

C17_Witness ==
    /\ ReportBuilt
    /\ Len(hresp.matched_pairs) = 2
    /\ hresp.matched_pairs[1].i1 = 1
    /\ hresp.matched_pairs[2].i1 = 3
    /\ hresp.matched_pairs[2].serial = 2

----------------------------------------------------------------------------
(* Properties of the trajectory endpoints *)

TrajectoriesAnswered ==
    /\ hreq.endpoint \in {"trajectories", "trajectories/date-range"}
    /\ hresp # NoResponse
    /\ hresp.status = 200

\* the coordinates of the k-th trajectory of the response
CoordinatesOf(k) ==
    {hresp.data[k].coordinates[i] : i \in 1..Len(hresp.data[k].coordinates)}

\* C18: in the answers of both endpoints, two samples of one station and of
\* different devices are never in one trajectory.
C18_DevicesNotMerged ==
    TrajectoriesAnswered =>
        \A k \in 1..Len(hresp.data) :
            \A c1, c2 \in CoordinatesOf(k) :
                c1.station = c2.station => c1.device_id = c2.device_id

C18_Witness ==
    /\ TrajectoriesAnswered
    /\ Len(hresp.data) >= 2
    /\ \E j, k \in 1..Len(hresp.data) :
           /\ j # k
           /\ hresp.data[j].station = hresp.data[k].station
           /\ hresp.data[j].device_id # hresp.data[k].device_id
           /\ Cardinality(CoordinatesOf(k)) >= 2

\* C24: in the answers of both endpoints, two samples are in one trajectory
\* only if they have the same station and the same device_id, and the station
\* and device_id a trajectory reports are those of every sample in it.
C24_GroupsByStationAndDevice ==
    TrajectoriesAnswered =>
        \A k \in 1..Len(hresp.data) :
            /\ \A c1, c2 \in CoordinatesOf(k) :
                   c1.station = c2.station /\ c1.device_id = c2.device_id
            /\ \A c \in CoordinatesOf(k) :
                   /\ c.station = hresp.data[k].station
                   /\ c.device_id = hresp.data[k].device_id

----------------------------------------------------------------------------
(* Properties of the sessions *)

\* C19: a session that get_db has opened for a request is eventually
\* closed, whatever way the handler ends: with its return, with an HTTP
\* error (validation, not found) or with a failure of the infrastructure.
C19_SessionEventuallyClosed ==
    /\ \A p \in Procs : session_open[p] ~> ~session_open[p]
    /\ hsession_open ~> ~hsession_open

\* a not-found answer has been sent and its session is closed, while the
\* session of an upload that failed at its commit is still to be closed
C19_Witness ==
    /\ hreq = NoRequest
    /\ hresp # NoResponse
    /\ hresp.status = 404
    /\ ~hsession_open
    /\ resp["p1"].status = 500
    /\ session_open["p1"]

----------------------------------------------------------------------------
(* Further properties of the station report *)

\* the positions of the station-2 samples that can be paired with s1: of
\* its date, in the window, and with a distance that can be computed
Candidates(s1) ==
    {j \in 1..Len(hresp.station2_samples) :
        LET s2 == hresp.station2_samples[j]
        IN  /\ WithinWindow(s1, s2)
            /\ ~HaversineRaises(s1.lat, s1.lon, s2.lat, s2.lon)}

\* C21: the station-2 sample of a pair is a function of its station-1 sample
\* and of the station-2 list alone, not of the pairs made before it: matching
\* consumes nothing, and one station-2 sample may be in several pairs.
C21_MatchingDoesNotConsume ==
    ReportBuilt =>
        /\ \A p \in PairsOfReport :
              /\ Candidates(Station1Of(p)) # {}
              /\ p.i2 = Min(Candidates(Station1Of(p)))
        /\ \A i \in 1..Len(hresp.station1_samples) :
              Candidates(hresp.station1_samples[i]) # {}
                  => \E p \in PairsOfReport : p.i1 = i

\* two station-1 samples are paired with one station-2 sample
C21_Witness ==
    /\ ReportBuilt
    /\ \E p, q \in PairsOfReport : p.i1 # q.i1 /\ p.i2 = q.i2

\* the samples of the two stations that the query of the request selects
SelectedOf(station) == {s \in Selected(store, hreq) : s.station = station}

\* a pair of selected samples from which the loop makes a matched pair
Pairable(s1, s2) ==
    /\ WithinWindow(s1, s2)
    /\ ~HaversineRaises(s1.lat, s1.lon, s2.lat, s2.lon)

DatesAccepted == StrptimeOk(hreq.start_date) /\ StrptimeOk(hreq.end_date)

\* C23: the workbook stage, with its division by the number of pairs, is
\* reached only with at least one pair: when the loop makes no pair the
\* request ends with the no-match 404, and no answer comes from a division
\* by zero.
C23_NoDivisionByZero ==
    ReportAnswered =>
        /\ "exception" \notin DOMAIN hresp
        /\ hresp.status = 200 =>
              /\ Len(hresp.matched_pairs) >= 1
              /\ hresp.total >= 1
        /\ (/\ DatesAccepted
            /\ hresp.status # 500
            /\ SelectedOf(hreq.station1) # {}
            /\ SelectedOf(hreq.station2) # {}
            /\ \A s1 \in SelectedOf(hreq.station1), s2 \in SelectedOf(hreq.station2) :
                   ~Pairable(s1, s2))
           => /\ hresp.status = 404
              /\ hresp.detail = NoMatchDetail

\* the loop made no pair although two samples were in the window: the
\* distance of the only such pair could not be computed
C23_Witness ==
    /\ ReportAnswered
    /\ hresp.status = 404
    /\ hresp.detail = NoMatchDetail
    /\ \E s1 \in SelectedOf(hreq.station1), s2 \in SelectedOf(hreq.station2) :
           WithinWindow(s1, s2) /\ ~Pairable(s1, s2)

\* C27: the station-2 sample of a pair is, among the station-2 samples of
\* the date of its station-1 sample that are within 120 seconds of it, the
\* one with the smallest sample_time; and the pairs come in non-decreasing
\* (sample_date, sample_time) order of their station-1 samples.
C27_SmallestTimeMatched ==
    ReportBuilt =>
        /\ \A p \in PairsOfReport :
              \A j \in 1..Len(hresp.station2_samples) :
                  WithinWindow(Station1Of(p), hresp.station2_samples[j])
                      => TextLeq(Station2Of(p).sample_time,
                                 hresp.station2_samples[j].sample_time)
        /\ \A k \in 1..(Len(hresp.matched_pairs) - 1) :
              ~RowBefore(Station1Of(hresp.matched_pairs[k + 1]),
                         Station1Of(hresp.matched_pairs[k]))

----------------------------------------------------------------------------
(* Further properties of the bulk ingest *)

\* C22: a bulk upload of more than 1000 samples is answered with an error
\* of the 400 class that names the limit, never with the 500 of an internal
\* error.
C22_OversizeIsClientError ==
    \A p \in Procs :
        (Responded(p) /\ Len(req[p].samples) > 1000) =>
            /\ resp[p].status \in 400..499
            /\ resp[p].status # 500
            /\ <<"max_items", 1000>> \in resp[p].errors

C22_Witness ==
    \E p \in Procs :
        /\ Responded(p)
        /\ Len(req[p].samples) = 1001
        /\ resp[p].status = 422
        /\ exc[p] = "RequestValidationError"
        /\ <<"max_items", 1000>> \in resp[p].errors

\* C25: whenever a call is answered with success, every client_id of its
\* accepted list has a row in the table at that moment, committed by this call
\* or by an earlier one, whatever the interleaving with the other ingest calls.
C25_AcknowledgedIsStored ==
    \A p \in Procs :
        Succeeded(p) =>
            \A i \in 1..Len(SyncedIds(p)) : RowsOf(SyncedIds(p)[i]) # {}

\* a success whose accepted list names a row committed earlier and a row this
\* call committed
C25_Witness ==
    \E p \in Procs :
        /\ Succeeded(p)
        /\ \E id \in Elems(SyncedIds(p)) : id \in prior[p]
        /\ \E id \in Elems(SyncedIds(p)) :
              /\ id \notin prior[p]
              /\ \E i \in RowsOf(id) : store[i].device_id = req[p].deviceId

\* the call of p is running or has been answered with an error
Submitted(p) == pc[p] \in {"loop", "commit"}

\* C26: a client that re-submits its batch of well-formed samples after
\* every error eventually receives a success, and the table then holds
\* exactly one row for each distinct client_id of the batch.
C26_RetryEventuallySucceeds ==
    \A p \in Procs :
        Submitted(p) ~>
            (/\ Succeeded(p)
             /\ \A id \in Ids(req[p].samples) : Cardinality(RowsOf(id)) = 1)

============================================================================
